---- MODULE Spec2Model ----
(***************************************************************************)
(* Model of py2deb/backends/stdeb_backend.py: the stdeb build backend.     *)
(*                                                                         *)
(* build(context) runs six calls in sequence; the last one,                *)
(* dpkg_buildpackage, holds both the native build and the artifact scan.   *)
(* Text is modelled as a sequence of tokens (a token is a character or a   *)
(* run of characters without separators or glob metacharacters); a file    *)
(* is a sequence of lines and a line is a sequence of tokens.              *)
(***************************************************************************)
EXTENDS Integers, Sequences, FiniteSets, TLC

VARIABLES
    pc,            \* position of the single thread inside build()
    verbose,       \* context['verbose']
    stdeb_version, \* stdeb.__version__
    package,       \* context['package']: name, debian_name, directory, debian_dependencies
    config,        \* context['config']: per section, its options and its control-field overrides
    debian,        \* <package.directory>/debian: file name -> "absent" | "old" | "new"
    control,       \* content of debian/control (a sequence of lines) when it exists
    written,       \* the control file as the Debianizer left it (history)
    objs,          \* paragraph objects created so far (index = identity)
    paragraphs,    \* the local list `paragraphs` of patch_control: object identities
    environ,       \* os.environ, restricted to DH_VERBOSE and DH_OPTIONS
    listing,       \* os.listdir(parent_directory) as seen by the scan
    commands,      \* every command handed to run(), in order
    linted,        \* every pathname handed to lintian, in order
    warned,        \* whether the "previously Debianized" warning was logged
    started,       \* stages started, in order
    completed,     \* stages that completed successfully, in order
    outcome        \* what build() gave its caller: nothing yet, a path, or an exception

vars == <<pc, verbose, stdeb_version, package, config, debian, control, written,
          objs, paragraphs, environ, listing, commands, linted, warned,
          started, completed, outcome>>

-----------------------------------------------------------------------------
(* Bounds of the model.                                                    *)

\* longest directory listing the scan is given
MaxListing == 2
\* largest number of paragraphs in a control file written by the Debianizer
MaxParas == 3

-----------------------------------------------------------------------------
(* Text helpers.                                                           *)

Unset == <<"<unset>">>
NoFile == <<"<no file>">>
Blank == <<>>

\* sep.join(items)
RECURSIVE Join(_, _)
Join(sep, items) ==
    IF items = <<>> THEN <<>>
    ELSE IF Len(items) = 1 THEN Head(items)
    ELSE Head(items) \o sep \o Join(sep, Tail(items))

\* str.endswith
EndsWith(s, suffix) ==
    /\ Len(s) >= Len(suffix)
    /\ SubSeq(s, Len(s) - Len(suffix) + 1, Len(s)) = suffix

\* os.path.dirname: everything before the last "/"
RECURSIVE DirName(_)
DirName(path) ==
    IF path = <<>> THEN <<>>
    ELSE IF path[Len(path)] = "/" THEN
        IF Len(path) = 1 THEN path ELSE SubSeq(path, 1, Len(path) - 1)
    ELSE DirName(SubSeq(path, 1, Len(path) - 1))

\* os.path.join(directory, name) for a relative name
PathJoin(directory, name) ==
    IF directory # <<>> /\ directory[Len(directory)] = "/"
    THEN directory \o name
    ELSE directory \o <<"/">> \o name

\* fnmatch.fnmatch on a POSIX system: "*" matches any run of characters,
\* "?" matches one, everything else matches itself; the whole name must match.
RECURSIVE FnMatch(_, _)
FnMatch(name, pat) ==
    IF pat = <<>> THEN name = <<>>
    ELSE IF Head(pat) = "*" THEN
        \/ FnMatch(name, Tail(pat))
        \/ name # <<>> /\ FnMatch(Tail(name), pat)
    ELSE IF name = <<>> THEN FALSE
    ELSE IF Head(pat) = "?" THEN FnMatch(Tail(name), Tail(pat))
    ELSE Head(name) = Head(pat) /\ FnMatch(Tail(name), Tail(pat))

\* every order in which the elements of S can be enumerated
Orderings(S) ==
    { s \in [1..Cardinality(S) -> S] : \A i, j \in DOMAIN s : i # j => s[i] # s[j] }

-----------------------------------------------------------------------------
(* The control-file format (debian.deb822.Deb822).                         *)
(* A paragraph is an ordered mapping: a sequence of [key, value] records   *)
(* with distinct keys.                                                     *)

Keys(p) == { p[i].key : i \in DOMAIN p }

HasKey(p, k) == k \in Keys(p)

Lookup(p, k) == p[CHOOSE i \in DOMAIN p : p[i].key = k].value

\* Deb822.__setitem__: an existing key keeps its position, a new key goes last
SetField(p, k, v) ==
    IF HasKey(p, k)
    THEN [ i \in DOMAIN p |-> IF p[i].key = k THEN [key |-> k, value |-> v] ELSE p[i] ]
    ELSE Append(p, [key |-> k, value |-> v])

IsFieldLine(line) == Len(line) >= 2 /\ line[2] = ": "

\* one paragraph from its lines
RECURSIVE ParseFields(_, _)
ParseFields(lines, acc) ==
    IF lines = <<>> THEN acc
    ELSE LET line == Head(lines) IN
         ParseFields(Tail(lines),
                     IF IsFieldLine(line)
                     THEN SetField(acc, line[1], SubSeq(line, 3, Len(line)))
                     ELSE acc)

\* the runs of non-blank lines of a file, in order
RECURSIVE SplitParagraphs(_, _, _)
SplitParagraphs(lines, cur, acc) ==
    IF lines = <<>> THEN (IF cur = <<>> THEN acc ELSE Append(acc, cur))
    ELSE IF Head(lines) = Blank
         THEN SplitParagraphs(Tail(lines), <<>>, IF cur = <<>> THEN acc ELSE Append(acc, cur))
         ELSE SplitParagraphs(Tail(lines), Append(cur, Head(lines)), acc)

\* list(Deb822.iter_paragraphs(handle))
IterParagraphs(lines) ==
    LET chunks == SplitParagraphs(lines, <<>>, <<>>)
    IN  [ i \in DOMAIN chunks |-> ParseFields(chunks[i], <<>>) ]

\* Deb822.dump: one "key: value" line per field, in order
Dump(p) == [ i \in DOMAIN p |-> <<p[i].key, ": ">> \o p[i].value ]

-----------------------------------------------------------------------------
(* Inputs: the packages, configurations and files the runs are given.      *)

PackageFoo(deps) ==
    [ name |-> <<"foo">>,
      debian_name |-> <<"pydeb-", "foo">>,
      directory |-> <<"/", "build", "/", "foo">>,
      debian_dependencies |-> deps ]

PackageFooBar(deps) ==
    [ name |-> <<"Foo_Bar">>,
      debian_name |-> <<"pydeb-", "foo", "-bar">>,
      directory |-> <<"/", "build", "/", "Foo_Bar">>,
      debian_dependencies |-> deps ]

Packages ==
    { PackageFoo(<<>>),
      PackageFoo(<< <<"pydeb-", "a">>, <<"pydeb-", "b", " (>= 1)">> >>),
      PackageFooBar(<< <<"pydeb-", "a">> >>) }

NoOptions == [ s \in {} |-> <<>> ]

\* a configuration: per section, its options and its control-field overrides
Config(options, fields) == [ options |-> options, fields |-> fields ]

ScriptOption == [ script |-> <<"make", " ", "docs">> ]

Configs ==
    { Config(NoOptions, NoOptions),
      Config([ s \in {<<"foo">>, <<"Foo_Bar">>} |-> ScriptOption ], NoOptions),
      Config([ s \in {<<"other">>} |-> ScriptOption ],
             [ s \in {<<"foo">>, <<"Foo_Bar">>} |->
                   [ Depends |-> <<"libuser">>, Section |-> <<"python">> ] ]),
      Config([ s \in {<<"foo">>, <<"Foo_Bar">>} |-> ScriptOption ],
             [ s \in {<<"foo">>, <<"Foo_Bar">>} |-> [ Package |-> <<"custom-name">> ] ]) }

StdebVersions == { "0.6.0", "0.6.0+git", "0.7.1" }

\* the files of debian/ the model tracks; the Debianizer writes the first two
StdebFiles == { "control", "rules" }
DebianFiles == StdebFiles \cup { "postinst" }

NoDebian == [ f \in DebianFiles |-> "absent" ]

\* debian/ as a run may find it: missing, left by a complete earlier run,
\* or left without its control file
DebianStates ==
    { NoDebian,
      [ f \in DebianFiles |-> "old" ],
      [ f \in DebianFiles |-> IF f = "control" THEN "absent" ELSE "old" ] }

SourceLines(pkg) ==
    << <<"Source", ": ">> \o pkg.name,
       <<"Maintainer", ": ", "X">> >>

BinaryLines ==
    { << <<"Package", ": ", "python-", "pkg">>,
         <<"Architecture", ": ", "all">>,
         <<"Depends", ": ", "${misc:Depends}">> >>,
      << <<"Package", ": ", "python-", "pkg">>,
         <<"Description", ": ", "summary">>,
         <<"Architecture", ": ", "all">> >>,
      << <<"Depends", ": ", "${misc:Depends}">>,
         <<"Architecture", ": ", "all">> >> }

ExtraLines == << <<"Package", ": ", "python-", "pkg", "-doc">> >>

RECURSIVE Extras(_)
Extras(n) == IF n <= 0 THEN <<>> ELSE <<Blank>> \o ExtraLines \o Extras(n - 1)

\* a binary paragraph with all three fields the patch computes
FullBinaryLines ==
    << <<"Package", ": ", "python-", "pkg">>,
       <<"Architecture", ": ", "all">>,
       <<"Depends", ": ", "${misc:Depends}">>,
       <<"Description", ": ", "summary">> >>

\* two paragraphs laid out with an empty line at the end, or with two empty
\* lines between them
LooseDocuments(pkg) ==
    { SourceLines(pkg) \o <<Blank>> \o FullBinaryLines \o <<Blank>>,
      SourceLines(pkg) \o <<Blank, Blank>> \o FullBinaryLines }

\* the control files a successful Debianizer may leave: 0..MaxParas paragraphs
Documents(pkg) ==
    { <<>>, SourceLines(pkg) }
    \cup { SourceLines(pkg) \o <<Blank>> \o b \o Extras(n) :
               b \in BinaryLines, n \in 0..(MaxParas - 2) }
    \cup LooseDocuments(pkg)

OldControl ==
    << <<"Source", ": ", "old">>, Blank, <<"Package", ": ", "old">> >>

FileNames ==
    { <<"pydeb-", "foo", "_", "1.0-1_all", ".deb">>,
      <<"pydeb-", "foo", "_", ".deb">>,
      <<"pydeb-", "foo", "_", "1.0-1", ".dsc">>,
      <<"pydeb-", "foo", ".deb">>,
      <<"pydeb-", "foo", "-bar", "_", "2.0-1_all", ".deb">>,
      <<"otherpkg", "_", "1.0", ".deb">> }

\* directory listings: distinct names, in any order, at most MaxListing of them
Listings ==
    UNION { { l \in [1..n -> FileNames] : \A i, j \in 1..n : i # j => l[i] # l[j] } :
            n \in 0..MaxListing }

-----------------------------------------------------------------------------
(* Outcomes of build().                                                    *)

Running == [ kind |-> "none", type |-> "", value |-> <<>> ]
Return(value) == [ kind |-> "return", type |-> "", value |-> value ]
Raise(type, message) == [ kind |-> "raise", type |-> type, value |-> message ]

\* a run() call: the command, its working directory, the verbosity flag, the
\* environment it inherits and the exit status it came back with
RunCall(command, exit, env) ==
    [ command |-> command, directory |-> package.directory, verbose |-> verbose,
      env |-> env, exit |-> exit ]

ExitCodes == { 0, 1 }

\* os.environ as the process starts: the two variables not set, or set by
\* whoever started the process
EnvironStates ==
    { [ DH_VERBOSE |-> Unset, DH_OPTIONS |-> Unset ],
      [ DH_VERBOSE |-> <<"1">>, DH_OPTIONS |-> <<"--with", " ", "quilt">> ] }

Init ==
    /\ pc = "debianize"
    /\ verbose \in BOOLEAN
    /\ stdeb_version \in StdebVersions
    /\ package \in Packages
    /\ config \in Configs
    /\ debian \in DebianStates
    /\ control = IF debian["control"] = "absent" THEN NoFile ELSE OldControl
    /\ written = NoFile
    /\ objs = <<>>
    /\ paragraphs = <<>>
    /\ environ \in EnvironStates
    /\ listing = <<>>
    /\ commands = <<>>
    /\ linted = <<>>
    /\ warned = FALSE
    /\ started = <<>>
    /\ completed = <<>>
    /\ outcome = Running

-----------------------------------------------------------------------------
(* build(): the order of the calls.                                        *)

StageOrder ==
    << "debianize", "patch_control", "apply_script", "sanity_check_dependencies",
       "clean_package_tree", "dpkg_buildpackage", "scan" >>

\* the script hook and the dependency check called in the other order
NextStage_ScriptAfterCheck(stage) ==
    CASE stage = "debianize" -> "patch_control"
      [] stage = "patch_control" -> "sanity_check_dependencies"
      [] stage = "sanity_check_dependencies" -> "apply_script"
      [] stage = "apply_script" -> "clean_package_tree"
      [] stage = "clean_package_tree" -> "dpkg_buildpackage"
      [] stage = "dpkg_buildpackage" -> "scan"
      [] stage = "scan" -> "done"

\* where control goes when a stage returns normally
NextStage(stage) ==
    CASE stage = "debianize" -> "patch_control"
      [] stage = "patch_control" -> "apply_script"
      [] stage = "apply_script" -> "sanity_check_dependencies"
      [] stage = "sanity_check_dependencies" -> "clean_package_tree"
      [] stage = "clean_package_tree" -> "dpkg_buildpackage"
      [] stage = "dpkg_buildpackage" -> "scan"
      [] stage = "scan" -> "done"

\* a stage begins
Begin(stage) == started' = Append(started, stage)

\* a stage returns normally
Finish(stage) ==
    /\ completed' = Append(completed, stage)
    /\ pc' = NextStage(stage)

\* the exception caught and dropped: the run ends with nothing to show
Abort_Swallowed(type, message) ==
    /\ pc' = "done"
    /\ UNCHANGED <<outcome, completed>>

\* an exception leaves the stage and, uncaught, build() itself
Abort(type, message) ==
    /\ outcome' = Raise(type, message)
    /\ pc' = "done"
    /\ UNCHANGED completed

-----------------------------------------------------------------------------
(* debianize(package, verbose)                                             *)

\* os.path.isfile(<directory>/debian/control)
PreviouslyDebianized == debian["control"] # "absent"

\* shutil.rmtree(<directory>/debian)
RmTree == NoDebian

\* the version compared by its prefix
DebianizeCommand_PrefixMatch ==
    LET command == << <<"<prefix>", "/bin/python">>, <<"setup.py">>,
                      <<"--command-packages=stdeb.command">>, <<"debianize">> >>
    IN  Join(<<" ">>, IF stdeb_version \in { "0.6.0", "0.6.0+git" }
                      THEN Append(command, <<"--ignore-install-requires">>)
                      ELSE command)

DebianizeCommand ==
    LET command == << <<"<prefix>", "/bin/python">>, <<"setup.py">>,
                      <<"--command-packages=stdeb.command">>, <<"debianize">> >>
    IN  Join(<<" ">>, IF stdeb_version = "0.6.0"
                      THEN Append(command, <<"--ignore-install-requires">>)
                      ELSE command)

DebianizeFailed == <<"Failed to debianize package! (">> \o package.name \o <<")">>

Debianize ==
    /\ pc = "debianize"
    /\ Begin("debianize")
    /\ warned' = (warned \/ PreviouslyDebianized)
    /\ LET cleared == IF PreviouslyDebianized THEN RmTree ELSE debian
           gone == IF PreviouslyDebianized THEN NoFile ELSE control
       IN  \E exit \in ExitCodes :
           /\ commands' = Append(commands, RunCall(DebianizeCommand, exit, environ))
           /\ IF exit # 0
              THEN /\ \E partial \in { {}, {"rules"} } :
                          debian' = [ f \in DebianFiles |->
                                          IF f \in partial THEN "new" ELSE cleared[f] ]
                   /\ control' = gone
                   /\ UNCHANGED written
                   /\ Abort("BackendFailed", DebianizeFailed)
              ELSE /\ debian' = [ f \in DebianFiles |->
                                      IF f \in StdebFiles THEN "new" ELSE cleared[f] ]
                   /\ \E doc \in Documents(package) :
                          /\ control' = doc
                          /\ written' = doc
                   /\ Finish("debianize")
                   /\ UNCHANGED outcome
    /\ UNCHANGED <<verbose, stdeb_version, package, config, objs, paragraphs,
                   environ, listing, linted>>

-----------------------------------------------------------------------------
(* patch_control(package, config)                                          *)

UnexpectedFormat ==
    <<"Unexpected control file format for ">> \o package.name \o <<"!">>

\* a file of two paragraphs or more let through
UnexpectedCount_TooFew(n) == n < 2

\* line 58: len(paragraphs) != 2
UnexpectedCount(n) == n # 2

\* the file opened for reading and writing at once, truncated before the check
PatchRead_TruncatesFirst ==
    /\ pc = "patch_control"
    /\ Begin("patch_control")
    /\ control' = <<>>
    /\ LET parsed == IterParagraphs(control)
       IN  /\ objs' = objs \o parsed
           /\ paragraphs' = [ i \in 1..Len(parsed) |-> Len(objs) + i ]
           /\ IF UnexpectedCount(Len(parsed))
              THEN Abort("BackendFailed", UnexpectedFormat)
              ELSE /\ pc' = "patch_open"
                   /\ UNCHANGED <<outcome, completed>>
    /\ UNCHANGED <<verbose, stdeb_version, package, config, debian, written,
                   environ, listing, commands, linted, warned>>

\* lines 55-60: read the file, require two paragraphs
PatchRead ==
    /\ pc = "patch_control"
    /\ Begin("patch_control")
    /\ LET parsed == IterParagraphs(control)
       IN  /\ objs' = objs \o parsed
           /\ paragraphs' = [ i \in 1..Len(parsed) |-> Len(objs) + i ]
           /\ IF UnexpectedCount(Len(parsed))
              THEN Abort("BackendFailed", UnexpectedFormat)
              ELSE /\ pc' = "patch_open"
                   /\ UNCHANGED <<outcome, completed>>
    /\ UNCHANGED <<verbose, stdeb_version, package, config, debian, control, written,
                   environ, listing, commands, linted, warned>>

\* line 61: open(control_file, 'w') truncates the file
PatchOpen ==
    /\ pc = "patch_open"
    /\ control' = <<>>
    /\ pc' = "patch_merge"
    /\ UNCHANGED <<verbose, stdeb_version, package, config, debian, written, objs,
                   paragraphs, environ, listing, commands, linted, warned, started,
                   completed, outcome>>

Description == <<"Packaged by py2deb on ", "<time>">>

\* the package named by its source name
Overrides_SourceName ==
    [ Package |-> package.name,
      Description |-> Description,
      Depends |-> Join(<<", ">>, package.debian_dependencies) ]

\* lines 66-68: the computed overrides
Overrides ==
    [ Package |-> package.debian_name,
      Description |-> Description,
      Depends |-> Join(<<", ">>, package.debian_dependencies) ]

\* deb_pkg_tools.control.merge_control_fields, the overrides enumerated in
\* the given order: a new paragraph, the defaults overlaid by the overrides
RECURSIVE merge_control_fields(_, _, _)
merge_control_fields(defaults, overrides, order) ==
    IF order = <<>> THEN defaults
    ELSE merge_control_fields(SetField(defaults, Head(order), overrides[Head(order)]),
                              overrides, Tail(order))

\* py2deb.util.patch_control_file: the fields configured for this package,
\* overlaid on the paragraph
UserFields ==
    IF package.name \in DOMAIN config.fields
    THEN config.fields[package.name]
    ELSE NoOptions

patch_control_file(fields, order) ==
    merge_control_fields(fields, UserFields, order)

\* line 69: paragraphs[1] = merge_control_fields(paragraphs[1], overrides)
PatchMerge ==
    /\ pc = "patch_merge"
    /\ \E order \in Orderings(DOMAIN Overrides) :
           objs' = Append(objs, merge_control_fields(objs[paragraphs[2]], Overrides, order))
    /\ paragraphs' = [ paragraphs EXCEPT ![2] = Len(objs) + 1 ]
    /\ pc' = "patch_user"
    /\ UNCHANGED <<verbose, stdeb_version, package, config, debian, control, written,
                   environ, listing, commands, linted, warned, started, completed,
                   outcome>>

\* the paragraph patch_control_file returns not kept
PatchUser_ResultDropped ==
    /\ pc = "patch_user"
    /\ \E order \in Orderings(DOMAIN UserFields) :
           objs' = Append(objs, patch_control_file(objs[paragraphs[2]], order))
    /\ pc' = "patch_dump"
    /\ UNCHANGED <<verbose, stdeb_version, package, config, debian, control, written,
                   paragraphs, environ, listing, commands, linted, warned, started,
                   completed, outcome>>

\* line 72: paragraphs[1] = patch_control_file(package, paragraphs[1])
PatchUser ==
    /\ pc = "patch_user"
    /\ \E order \in Orderings(DOMAIN UserFields) :
           objs' = Append(objs, patch_control_file(objs[paragraphs[2]], order))
    /\ paragraphs' = [ paragraphs EXCEPT ![2] = Len(objs) + 1 ]
    /\ pc' = "patch_dump"
    /\ UNCHANGED <<verbose, stdeb_version, package, config, debian, control, written,
                   environ, listing, commands, linted, warned, started, completed,
                   outcome>>

\* the line between the two paragraphs not written
Serialized_NoSeparator == Dump(objs[paragraphs[1]]) \o Dump(objs[paragraphs[2]])

\* an empty line written after each paragraph
Serialize_BlankAfterEach(first, second) ==
    Dump(first) \o <<Blank>> \o Dump(second) \o <<Blank>>

\* lines 74-76: first.dump(handle); handle.write('\n'); second.dump(handle)
Serialize(first, second) == Dump(first) \o <<Blank>> \o Dump(second)

\* lines 74-76: what the three writes leave in the file
Serialized == Serialize(objs[paragraphs[1]], objs[paragraphs[2]])

PatchDump ==
    /\ pc = "patch_dump"
    /\ control' = control \o Serialized
    /\ Finish("patch_control")
    /\ UNCHANGED <<verbose, stdeb_version, package, config, debian, written, objs,
                   paragraphs, environ, listing, commands, linted, warned, started,
                   outcome>>

-----------------------------------------------------------------------------
(* apply_script(package, config, verbose)                                  *)

\* ConfigParser.has_option(section, option)
has_option(section, option) ==
    /\ section \in DOMAIN config.options
    /\ option \in DOMAIN config.options[section]

ScriptFailed == <<"Failed to apply script to ">> \o package.name \o <<"!">>

\* the exit status of the script not looked at
ApplyScript_IgnoresExit ==
    /\ pc = "apply_script"
    /\ Begin("apply_script")
    /\ IF has_option(package.name, "script")
       THEN \E exit \in ExitCodes :
            /\ commands' = Append(commands,
                                  RunCall(config.options[package.name]["script"], exit, environ))
            /\ Finish("apply_script")
            /\ UNCHANGED outcome
       ELSE /\ Finish("apply_script")
            /\ UNCHANGED <<commands, outcome>>
    /\ UNCHANGED <<verbose, stdeb_version, package, config, debian, control, written,
                   objs, paragraphs, environ, listing, linted, warned>>

\* the configured script never run
ApplyScript_NeverRuns ==
    /\ pc = "apply_script"
    /\ Begin("apply_script")
    /\ Finish("apply_script")
    /\ UNCHANGED <<commands, outcome>>
    /\ UNCHANGED <<verbose, stdeb_version, package, config, debian, control, written,
                   objs, paragraphs, environ, listing, linted, warned>>

ApplyScript ==
    /\ pc = "apply_script"
    /\ Begin("apply_script")
    /\ IF has_option(package.name, "script")
       THEN \E exit \in ExitCodes :
            /\ commands' = Append(commands,
                                  RunCall(config.options[package.name]["script"], exit, environ))
            /\ IF exit # 0
               THEN Abort("BackendFailed", ScriptFailed)
               ELSE Finish("apply_script") /\ UNCHANGED outcome
       ELSE /\ Finish("apply_script")
            /\ UNCHANGED <<commands, outcome>>
    /\ UNCHANGED <<verbose, stdeb_version, package, config, debian, control, written,
                   objs, paragraphs, environ, listing, linted, warned>>

-----------------------------------------------------------------------------
(* The two collaborators build() calls directly.                           *)

\* the collaborator's error caught and raised again as BackendFailed
SanityCheck_Wrapped ==
    /\ pc = "sanity_check_dependencies"
    /\ Begin("sanity_check_dependencies")
    /\ \/ Finish("sanity_check_dependencies") /\ UNCHANGED outcome
       \/ Abort("BackendFailed", <<"sanity_check_dependencies">>)
    /\ UNCHANGED <<verbose, stdeb_version, package, config, debian, control, written,
                   objs, paragraphs, environ, listing, commands, linted, warned>>

\* pip_accel.deps.sanity_check_dependencies: returns, or raises its own error
SanityCheck ==
    /\ pc = "sanity_check_dependencies"
    /\ Begin("sanity_check_dependencies")
    /\ \/ Finish("sanity_check_dependencies") /\ UNCHANGED outcome
       \/ Abort("DependencyError", <<"sanity_check_dependencies">>)
    /\ UNCHANGED <<verbose, stdeb_version, package, config, debian, control, written,
                   objs, paragraphs, environ, listing, commands, linted, warned>>

\* deb_pkg_tools.package.clean_package_tree: returns, or raises its own error
CleanTree ==
    /\ pc = "clean_package_tree"
    /\ Begin("clean_package_tree")
    /\ \/ Finish("clean_package_tree") /\ UNCHANGED outcome
       \/ Abort("OSError", <<"clean_package_tree">>)
    /\ UNCHANGED <<verbose, stdeb_version, package, config, debian, control, written,
                   objs, paragraphs, environ, listing, commands, linted, warned>>

-----------------------------------------------------------------------------
(* dpkg_buildpackage(package, verbose)                                     *)

BuildCommand == <<". /etc/environment && dpkg-buildpackage -us -uc">>

\* both variables set whatever the flag and the version
BuildEnviron_BothAlways ==
    [ DH_VERBOSE |-> <<"1">>, DH_OPTIONS |-> <<"--no-guessing-deps">> ]

\* lines 104-109: what the build leaves in os.environ
BuildEnviron ==
    [ DH_VERBOSE |-> IF verbose THEN <<"1">> ELSE environ.DH_VERBOSE,
      DH_OPTIONS |-> IF stdeb_version = "0.6.0+git"
                     THEN <<"--no-guessing-deps">>
                     ELSE environ.DH_OPTIONS ]

\* the build failure raised as the other stages raise theirs
BuildError_BackendFailed == "BackendFailed"

\* line 111: raise Exception
BuildError == "Exception"

BuildFailed == <<"Failed to build package ">> \o package.debian_name \o <<"!">>

\* the variables handed to the builder only, os.environ left as it was
Build_ScopedEnviron ==
    /\ pc = "dpkg_buildpackage"
    /\ Begin("dpkg_buildpackage")
    /\ \E exit \in ExitCodes :
       /\ commands' = Append(commands, RunCall(BuildCommand, exit, BuildEnviron))
       /\ IF exit # 0
          THEN Abort(BuildError, BuildFailed)
          ELSE Finish("dpkg_buildpackage") /\ UNCHANGED outcome
    /\ UNCHANGED <<verbose, stdeb_version, package, config, debian, control, written,
                   objs, paragraphs, environ, listing, linted, warned>>

\* lines 98-111: the native build
Build ==
    /\ pc = "dpkg_buildpackage"
    /\ Begin("dpkg_buildpackage")
    /\ environ' = BuildEnviron
    /\ \E exit \in ExitCodes :
       /\ commands' = Append(commands, RunCall(BuildCommand, exit, BuildEnviron))
       /\ IF exit # 0
          THEN Abort(BuildError, BuildFailed)
          ELSE Finish("dpkg_buildpackage") /\ UNCHANGED outcome
    /\ UNCHANGED <<verbose, stdeb_version, package, config, debian, control, written,
                   objs, paragraphs, listing, linted, warned>>

\* line 115
Considered(filename) == EndsWith(filename, <<".deb">>)

\* the name not compared with the package's
IsArchive_AnyDeb(filename) == TRUE

\* line 118: fnmatch.fnmatch(filename, '%s_*.deb' % package.debian_name)
IsArchive(filename) == FnMatch(filename, package.debian_name \o <<"_", "*", ".deb">>)

\* the loop not left at the first match: the last match returned
ScanFrom_LastMatch(entries, i) ==
    LET matches == { j \in i..Len(entries) : Considered(entries[j]) /\ IsArchive(entries[j]) }
    IN  IF matches = {} THEN 0 ELSE CHOOSE j \in matches : \A k \in matches : k <= j

\* only the first entry looked at
ScanFrom_FirstOnly(entries, i) ==
    IF i <= Len(entries) /\ Considered(entries[i]) /\ IsArchive(entries[i]) THEN i ELSE 0

\* lines 114-121: the index of the entry the loop returns on, 0 if it runs out
RECURSIVE ScanFrom(_, _)
ScanFrom(entries, i) ==
    IF i > Len(entries) THEN 0
    ELSE IF Considered(entries[i]) /\ IsArchive(entries[i]) THEN i
    ELSE ScanFrom(entries, i + 1)

ParentDirectory == DirName(package.directory)

ArchiveNotFound == <<"Could not find generated archive of ">> \o package.name \o <<"!">>

\* lines 112-123: the scan of the parent directory
Scan ==
    /\ pc = "scan"
    /\ Begin("scan")
    /\ \E entries \in Listings :
       /\ listing' = entries
       /\ LET found == ScanFrom(entries, 1)
              pathname == PathJoin(ParentDirectory, entries[found])
          IN  IF found # 0
              THEN /\ linted' = Append(linted, pathname)
                   /\ outcome' = Return(pathname)
                   /\ Finish("scan")
              ELSE /\ Abort("BackendFailed", ArchiveNotFound)
                   /\ UNCHANGED linted
    /\ UNCHANGED <<verbose, stdeb_version, package, config, debian, control, written,
                   objs, paragraphs, environ, commands, warned>>

-----------------------------------------------------------------------------

Next ==
    \/ Debianize
    \/ PatchRead
    \/ PatchOpen
    \/ PatchMerge
    \/ PatchUser
    \/ PatchDump
    \/ ApplyScript
    \/ SanityCheck
    \/ CleanTree
    \/ Build
    \/ Scan

Spec == Init /\ [][Next]_vars

\* every call of build() blocks until it returns: a run that can take a step
\* takes it
FairSpec == Spec /\ WF_vars(Next)

-----------------------------------------------------------------------------
(* Vocabulary of the properties.                                           *)

\* the concatenation of a sequence of texts
RECURSIVE Flatten(_)
Flatten(ss) == IF ss = <<>> THEN <<>> ELSE Head(ss) \o Flatten(Tail(ss))

Range(seq) == { seq[i] : i \in DOMAIN seq }

IsPrefix(s, t) == Len(s) <= Len(t) /\ SubSeq(t, 1, Len(s)) = s

NoDuplicates(seq) == \A i, j \in DOMAIN seq : i # j => seq[i] # seq[j]

\* the name starts with <debian_name>_ and ends with .deb, the two not overlapping
MatchesGlob(filename, debian_name) ==
    LET prefix == debian_name \o <<"_">>
    IN  /\ Len(filename) >= Len(prefix) + 1
        /\ SubSeq(filename, 1, Len(prefix)) = prefix
        /\ filename[Len(filename)] = ".deb"

\* the number of paragraphs of a file: the lines that open one
CountParagraphs(lines) ==
    Cardinality({ i \in DOMAIN lines :
                      lines[i] # Blank /\ (i = 1 \/ lines[i - 1] = Blank) })

\* evidence, apart from the exception itself, that a stage has failed
FailedCommand == \E i \in DOMAIN commands : commands[i].exit # 0

FormatFailure == "patch_control" \in Range(started) /\ CountParagraphs(written) # 2

ScanFailure ==
    /\ "scan" \in Range(started)
    /\ \A i \in DOMAIN listing : ~MatchesGlob(listing[i], package.debian_name)

StageHasFailed ==
    FailedCommand \/ FormatFailure \/ ScanFailure \/ outcome.kind = "raise"

-----------------------------------------------------------------------------
(* C1: the stages of a run start in the order Debianize, patch control     *)
(* file, apply script, dependency check, clean tree, native build, scan;   *)
(* a stage starts only when every earlier stage has completed, and a path  *)
(* is returned only when all seven have completed.                         *)
C1_StageOrder ==
    /\ IsPrefix(started, StageOrder)
    /\ IsPrefix(completed, StageOrder)
    /\ Len(completed) <= Len(started)
    /\ Len(started) <= Len(completed) + 1
    /\ outcome.kind = "return" => completed = StageOrder

C1_Witness ==
    /\ outcome.kind = "return"
    /\ started = StageOrder
    /\ Len(commands) = 3

(* C2: once a stage has failed nothing more runs: the failed stage is the  *)
(* last one started, the failing command is the last one run, no stage ran *)
(* twice, and the run ends with an exception and no path.                  *)
C2_FirstFailureAborts ==
    StageHasFailed =>
        /\ pc = "done"
        /\ outcome.kind = "raise"
        /\ Len(started) = Len(completed) + 1
        /\ NoDuplicates(started)
        /\ \A i \in DOMAIN commands : commands[i].exit # 0 => i = Len(commands)

C2_Witness ==
    /\ FailedCommand
    /\ started = SubSeq(StageOrder, 1, 3)
    /\ pc = "done"

(* C3: the scan returns only the path of a listed entry whose name matches *)
(* <debian_name>_*.deb; an entry that does not match is never returned.    *)
C3_ScanReturnsOnlyMatch ==
    outcome.kind = "return" =>
        \E i \in DOMAIN listing :
            /\ outcome.value = ParentDirectory \o <<"/">> \o listing[i]
            /\ MatchesGlob(listing[i], package.debian_name)

C3_Witness ==
    /\ outcome.kind = "return"
    /\ package.debian_name = <<"pydeb-", "foo">>
    /\ Len(listing) = 2
    /\ listing[1] = <<"otherpkg", "_", "1.0", ".deb">>

(* C4: after a successful native build, the run fails with BackendFailed   *)
(* when no listed entry matches <debian_name>_*.deb, and returns the path  *)
(* of a matching entry when one does.                                      *)
C4_ScanOutcome ==
    (pc = "done" /\ "dpkg_buildpackage" \in Range(completed)) =>
        IF \E i \in DOMAIN listing : MatchesGlob(listing[i], package.debian_name)
        THEN /\ outcome.kind = "return"
             /\ \E i \in DOMAIN listing :
                    /\ MatchesGlob(listing[i], package.debian_name)
                    /\ outcome.value = ParentDirectory \o <<"/">> \o listing[i]
        ELSE /\ outcome.kind = "raise"
             /\ outcome.type = "BackendFailed"

C4_Witness ==
    /\ pc = "done"
    /\ "dpkg_buildpackage" \in Range(completed)
    /\ listing = << <<"pydeb-", "foo", "_", "1.0-1", ".dsc">> >>
    /\ package.debian_name = <<"pydeb-", "foo">>
    /\ outcome.type = "BackendFailed"

(* C5: after a successful Debianize, debian/ holds only files written by   *)
(* the Debianizer in this run; whatever was in a debian/ directory found   *)
(* at the start has been removed.                                          *)
C5_FreshDebian ==
    "debianize" \in Range(completed) => \A f \in DebianFiles : debian[f] # "old"

(* C6: the patch stage completes only for a control file of exactly two    *)
(* paragraphs; for any other count it raises BackendFailed, leaves the     *)
(* file as the Debianizer wrote it and merges into no paragraph.           *)
C6_ExactlyTwoParagraphs ==
    /\ "patch_control" \in Range(completed) => CountParagraphs(written) = 2
    /\ ("patch_control" \in Range(started) /\ CountParagraphs(written) # 2) =>
           /\ outcome.kind = "raise"
           /\ outcome.type = "BackendFailed"
           /\ control = written
           /\ Len(objs) = CountParagraphs(written)

C6_Witness ==
    /\ "patch_control" \in Range(started)
    /\ CountParagraphs(written) >= 3
    /\ outcome.type = "BackendFailed"

JoinedWithCommas(items) ==
    Flatten([ i \in 1..(2 * Len(items) - 1) |->
                  IF i % 2 = 1 THEN items[(i + 1) \div 2] ELSE <<", ">> ])

\* the fields of a paragraph whose keys are not in K, in order
RECURSIVE Without(_, _)
Without(p, K) ==
    IF p = <<>> THEN <<>>
    ELSE IF Head(p).key \in K THEN Without(Tail(p), K)
    ELSE <<Head(p)>> \o Without(Tail(p), K)

C9_SourceParagraphKept ==
    "patch_control" \in Range(completed) =>
        LET out == IterParagraphs(control)
            inp == IterParagraphs(written)
        IN  /\ CountParagraphs(control) = 2
            /\ Len(out) = 2
            /\ out[1] = inp[1]
            /\ HasKey(out[1], "Source")
            /\ HasKey(out[2], "Package")

C9_Witness ==
    /\ "patch_control" \in Range(completed)
    /\ IterParagraphs(control)[2] # IterParagraphs(written)[2]
    /\ IterParagraphs(control)[1] = IterParagraphs(written)[1]

(* C10: a run that fails in the native build ends with an exception that   *)
(* is not BackendFailed, a run that fails in the Debianize, patch, script  *)
(* or scan stage ends with BackendFailed, and a nonzero exit of the native *)
(* builder always ends the run the first way.                              *)
C10_BuildFailureIsGeneric ==
    /\ outcome.kind = "raise" =>
           LET stage == started[Len(started)]
           IN  /\ stage = "dpkg_buildpackage" =>
                      (outcome.type = "Exception" /\ outcome.type # "BackendFailed")
               /\ stage \in { "debianize", "patch_control", "apply_script", "scan" } =>
                      outcome.type = "BackendFailed"
    /\ (\E i \in DOMAIN commands :
            commands[i].command = BuildCommand /\ commands[i].exit # 0) =>
           (outcome.kind = "raise" /\ outcome.type = "Exception")

C10_Witness ==
    /\ outcome.kind = "raise"
    /\ started[Len(started)] = "dpkg_buildpackage"
    /\ commands[Len(commands)].exit # 0
    /\ outcome.type = "Exception"

\* needle occurs in haystack
Contains(haystack, needle) ==
    \E i \in 1..(Len(haystack) - Len(needle) + 1) :
        SubSeq(haystack, i, i + Len(needle) - 1) = needle

\* the stages whose failures this module raises itself
OwnStages == { "debianize", "patch_control", "apply_script", "dpkg_buildpackage", "scan" }

(* C11: in every run that fails in a stage of this module (Debianize,      *)
(* control patch, script, build, scan) the message of the exception        *)
(* includes the source package name, package.name.                         *)
C11_MessageNamesPackage ==
    (outcome.kind = "raise" /\ started[Len(started)] \in OwnStages) =>
        Contains(outcome.value, package.name)

\* a two-paragraph file in the layout Deb822 writes: "key: value" lines with
\* distinct keys per paragraph, one empty line between the paragraphs, none
\* before the first or after the second
Canonical(lines) ==
    /\ lines # <<>>
    /\ lines[1] # Blank
    /\ lines[Len(lines)] # Blank
    /\ Cardinality({ i \in DOMAIN lines : lines[i] = Blank }) = 1
    /\ \A i \in DOMAIN lines : lines[i] # Blank => IsFieldLine(lines[i])
    /\ \A i, j \in DOMAIN lines :
           (i < j /\ lines[i] # Blank /\ lines[j] # Blank
                  /\ \A k \in i..j : lines[k] # Blank) => lines[i][1] # lines[j][1]

InitialEnviron == commands[1].env

\* what lines 104-109 set, over what the run found
ExpectedEnviron ==
    [ DH_VERBOSE |-> IF verbose THEN <<"1">> ELSE InitialEnviron.DH_VERBOSE,
      DH_OPTIONS |-> IF stdeb_version = "0.6.0+git"
                     THEN <<"--no-guessing-deps">>
                     ELSE InitialEnviron.DH_OPTIONS ]

(* C13 as stated: once the build stage has started, DH_VERBOSE and         *)
(* DH_OPTIONS are both set, whatever the verbosity flag and the helper     *)
(* version.                                                                *)
C13_BothAlwaysSet ==
    "dpkg_buildpackage" \in Range(started) =>
        (environ.DH_VERBOSE # Unset /\ environ.DH_OPTIONS # Unset)

(* C13 as amended: the build stage sets DH_VERBOSE when the verbosity flag *)
(* is set and DH_OPTIONS when the helper is 0.6.0+git, and leaves the      *)
(* other as the run found it; what it set stays in os.environ to the end   *)
(* of the run, whether the build succeeded or failed, and no earlier stage *)
(* changes either variable.                                                *)
C13_SetWhenAskedAndKept ==
    commands # <<>> =>
        IF "dpkg_buildpackage" \in Range(started)
        THEN environ = ExpectedEnviron
        ELSE environ = InitialEnviron

C13_Witness ==
    /\ pc = "done"
    /\ started[Len(started)] = "dpkg_buildpackage"
    /\ outcome.kind = "raise"
    /\ verbose
    /\ stdeb_version = "0.7.1"
    /\ InitialEnviron.DH_VERBOSE = Unset
    /\ environ.DH_VERBOSE = <<"1">>
    /\ environ.DH_OPTIONS = Unset

\* the run() calls that ran the native builder
BuilderCalls == { i \in DOMAIN commands : commands[i].command = BuildCommand }

(* C14: the native builder runs with DH_VERBOSE=1 whenever the verbosity   *)
(* flag is set and with DH_OPTIONS=--no-guessing-deps whenever the helper  *)
(* is 0.6.0+git; without the flag the build stage leaves DH_VERBOSE, and   *)
(* with another helper DH_OPTIONS, as the run found it.                    *)
C14_BuilderEnvironment ==
    \A i \in BuilderCalls :
        /\ verbose => commands[i].env.DH_VERBOSE = <<"1">>
        /\ stdeb_version = "0.6.0+git" =>
               commands[i].env.DH_OPTIONS = <<"--no-guessing-deps">>
        /\ ~verbose => commands[i].env.DH_VERBOSE = InitialEnviron.DH_VERBOSE
        /\ stdeb_version # "0.6.0+git" =>
               commands[i].env.DH_OPTIONS = InitialEnviron.DH_OPTIONS

C14_Witness ==
    /\ BuilderCalls # {}
    /\ verbose
    /\ stdeb_version = "0.6.0"
    /\ InitialEnviron.DH_OPTIONS = Unset
    /\ commands[Len(commands)].env = [ DH_VERBOSE |-> <<"1">>, DH_OPTIONS |-> Unset ]

\* the Debianizer was given --ignore-install-requires
FlagGiven == "--ignore-install-requires" \in Range(commands[1].command)

(* C15: the Debianizer command carries --ignore-install-requires exactly   *)
(* when the helper version is 0.6.0, no other command carries it, and no   *)
(* run both gives the flag and has its build stage set                     *)
(* DH_OPTIONS=--no-guessing-deps.                                          *)
C15_FlagForOldHelperOnly ==
    commands # <<>> =>
        /\ FlagGiven <=> stdeb_version = "0.6.0"
        /\ \A i \in DOMAIN commands :
               i # 1 => "--ignore-install-requires" \notin Range(commands[i].command)
        /\ ~(FlagGiven /\ \E i \in BuilderCalls :
                              commands[i].env.DH_OPTIONS = <<"--no-guessing-deps">>)

C15_Witness ==
    /\ BuilderCalls # {}
    /\ stdeb_version = "0.6.0"
    /\ FlagGiven
    /\ commands[1].command[Len(commands[1].command)] = "--ignore-install-requires"

\* the configuration has a script for this package
ScriptConfigured ==
    \E section \in DOMAIN config.options :
        section = package.name /\ "script" \in DOMAIN config.options[section]

\* the run() calls that are neither the Debianizer nor the native builder
ScriptCalls == { i \in DOMAIN commands : i # 1 /\ i \notin BuilderCalls }

(* C16: the script stage runs the configured command once, in the package  *)
(* directory, exactly when the section named after the source package has  *)
(* a 'script' option; without one it runs nothing and completes; when the  *)
(* script exits nonzero the run ends with BackendFailed and neither the    *)
(* dependency check, the tree clean nor the build is started.              *)
C16_ScriptHook ==
    IF "apply_script" \notin Range(started)
    THEN ScriptCalls = {}
    ELSE IF ScriptConfigured
    THEN /\ Cardinality(ScriptCalls) = 1
         /\ \A i \in ScriptCalls :
                /\ commands[i].command = config.options[package.name]["script"]
                /\ commands[i].directory = package.directory
                /\ commands[i].exit = 0 => "apply_script" \in Range(completed)
                /\ commands[i].exit # 0 =>
                       /\ outcome.kind = "raise"
                       /\ outcome.type = "BackendFailed"
                       /\ started = SubSeq(StageOrder, 1, 3)
                       /\ BuilderCalls = {}
    ELSE /\ ScriptCalls = {}
         /\ "apply_script" \in Range(completed)

C16_Witness ==
    /\ ScriptConfigured
    /\ ScriptCalls = {2}
    /\ commands[2].exit # 0
    /\ outcome.type = "BackendFailed"

\* the exception each collaborator raises when it fails
CollaboratorError ==
    [ sanity_check_dependencies |-> Raise("DependencyError", <<"sanity_check_dependencies">>),
      clean_package_tree |-> Raise("OSError", <<"clean_package_tree">>) ]

(* C17: when the dependency check or the tree cleaner fails, build() ends  *)
(* with that collaborator's own exception, not a BackendFailed, and the    *)
(* native builder is not started.                                          *)
C17_CollaboratorErrorsPropagate ==
    (outcome.kind = "raise" /\ started[Len(started)] \in DOMAIN CollaboratorError) =>
        /\ outcome = CollaboratorError[started[Len(started)]]
        /\ outcome.type # "BackendFailed"
        /\ "dpkg_buildpackage" \notin Range(started)
        /\ BuilderCalls = {}

C17_Witness ==
    /\ outcome.kind = "raise"
    /\ started[Len(started)] = "sanity_check_dependencies"
    /\ outcome.type = "DependencyError"
    /\ pc = "done"

\* the positions of the listing whose names match <debian_name>_*.deb
Matching == { i \in DOMAIN listing : MatchesGlob(listing[i], package.debian_name) }

(* C18: when several entries match <debian_name>_*.deb the scan returns    *)
(* the path of the first of them in listing order and hands lintian that   *)
(* path and no other.                                                      *)
C18_FirstMatchOnly ==
    outcome.kind = "return" =>
        /\ Matching # {}
        /\ \E i \in Matching :
               /\ \A j \in Matching : i <= j
               /\ outcome.value = ParentDirectory \o <<"/">> \o listing[i]
        /\ linted = <<outcome.value>>

C18_Witness ==
    /\ outcome.kind = "return"
    /\ Cardinality(Matching) = 2
    /\ Len(linted) = 1

\* the positions at which the stage about to run can fail whatever the inputs
AlwaysFallible ==
    { "debianize", "sanity_check_dependencies", "clean_package_tree",
      "dpkg_buildpackage", "scan" }

\* the next step may end the run with an exception
CanFailNow == ENABLED (Next /\ outcome'.kind = "raise")

(* C19: when every call returns, every run ends, and ends with exactly one *)
(* outcome, a path or an exception, which is given only as the run ends;   *)
(* nothing runs after the end; and a failure can be reached from every     *)
(* position short of the end: at once where the stage can always fail, and *)
(* from the others because a run ends only by failing or after passing the *)
(* dependency check.                                                       *)
C19_OneTerminalOutcome ==
    /\ <>(pc = "done")
    /\ [](pc = "done" => outcome.kind \in { "return", "raise" })
    /\ [](outcome.kind = "return" => Len(outcome.value) > 0)
    /\ [](outcome.kind # "none" => pc = "done")
    /\ [][pc # "done"]_vars
    /\ [](pc \in AlwaysFallible => CanFailNow)
    /\ [](pc = "done" =>
              (outcome.kind = "raise" \/ "sanity_check_dependencies" \in Range(started)))

C19_Witness ==
    /\ pc = "done"
    /\ outcome.kind = "raise"
    /\ started = StageOrder
    /\ ~ENABLED Next

(* C20: a patch stage that fails on the paragraph count leaves the control *)
(* file exactly as the Debianizer wrote it, and the file differs from what *)
(* the Debianizer wrote only once the count has been found to be two.      *)
C20_FailedCheckLeavesFile ==
    /\ (outcome.kind = "raise" /\ started[Len(started)] = "patch_control") =>
           /\ outcome.value = UnexpectedFormat
           /\ debian["control"] = "new"
           /\ control = written
    /\ ("debianize" \in Range(completed) /\ control # written) =>
           /\ Len(paragraphs) = 2
           /\ pc # "patch_control"
           /\ pc # "patch_open"

C20_Witness ==
    /\ outcome.kind = "raise"
    /\ started[Len(started)] = "patch_control"
    /\ Len(paragraphs) = 1
    /\ control = written
    /\ Len(control) = 2

====
